---- MODULE Spec2Model ----
(***************************************************************************)
(* A model of stormevents.nhc.track.VortexTrack: the track aggregate that  *)
(* owns a table of ATCF records, a filter window (start_date, end_date),   *)
(* a record_type selection and a source configuration (storm_id,           *)
(* file_deck, mode, filename), and lazily (re)acquires the table and       *)
(* recomputes velocities on read.                                          *)
(*                                                                         *)
(* Encoding.  A Python value that may be None is modelled as a sequence    *)
(* of length at most one: <<>> is None and <<v>> is the value v.  Strings  *)
(* that may be None use the string "None".  Timestamps are hours, small    *)
(* naturals.  A data frame is a sequence of rows; the row at position i    *)
(* has index label i - 1 (a RangeIndex).                                   *)
(***************************************************************************)
EXTENDS Integers, Sequences, FiniteSets, TLC

VARIABLES
    constructed,             \* "no" before __init__, "yes" after, "failed" if it raised
    dataframe,               \* self.__dataframe
    filename,                \* self.__filename
    remote_atcf,             \* self.__remote_atcf
    storm_id,                \* self.__storm_id
    start_date,              \* self.__start_date
    end_date,                \* self.__end_date
    file_deck,               \* self.__file_deck
    mode,                    \* self.__mode
    record_type,             \* self.__record_type
    invalid_storm_name,      \* self.__invalid_storm_name
    location_hash,           \* self.__location_hash
    previous_configuration,  \* self.__previous_configuration
    record_data,             \* the frames __compute_velocity wrote its results to
    op,                      \* the last operation called on the track
    raised,                  \* the exception the last operation raised, or "none"
    returned,                \* the rows the last read returned
    downloads,               \* calls of get_atcf_file made by the last operation
    decodes,                 \* calls of read_atcf made by the last operation
    engine_runs,             \* calls of __compute_velocity made by the last operation
    source,                  \* what the track was constructed from
    moves,                   \* the fixes the caller has moved so far
    reconfigured,            \* the caller assigned storm_id, file_deck, mode or filename
    assigned,                \* the date the last start_date or end_date assignment gave
    disk,                    \* the content of the path write() is given, None if it is no file
    isotach,                 \* the wind speed the last call of isotachs or wind_swath was given
    storm_argument           \* the string the constructor was given as storm, None if it was none

vars == <<constructed, dataframe, filename, remote_atcf, storm_id, start_date,
          end_date, file_deck, mode, record_type, invalid_storm_name,
          location_hash, previous_configuration, record_data, op, raised,
          returned, downloads, decodes, engine_runs, source, moves, reconfigured,
          assigned, disk, isotach, storm_argument>>

(***************************************************************************)
(* Bounds of the model.                                                    *)
(***************************************************************************)
\* the dates a caller assigns are the hours 1 .. MaxTime
MaxTime == 3
\* the number of times a caller moves a fix of the table
MaxMoves == 1

None == <<>>
Some(v) == <<v>>
IsNone(x) == x = <<>>
Value(x) == x[1]

\* the floating point value NaN (of a speed); every defined speed is >= 0
NaN == 0 - 1
\* the missing timestamp NaT that Series.diff() puts first
NaT == 0 - 1
\* the floating point value inf (a distance divided by a zero interval)
Infinity == 0 - 2

Dates == 1 .. MaxTime
RecordTypes == {"BEST", "OFCL", "HWRF"}

(***************************************************************************)
(* The external world: the files the provider serves, the files on disk    *)
(* and the byte streams a caller holds.  A raw file is a sequence of       *)
(* decoded lines in file order.                                            *)
(***************************************************************************)
Row(t, rt, lon, lat, n) ==
    [datetime |-> t, record_type |-> rt, longitude |-> lon, latitude |-> lat,
     speed |-> 0, direction |-> 0, storm_number |-> n]

\* the storms the provider knows
KnownStorms == {"AL112017"}

\* b-deck (best track) of AL112017: fixes at hours 1 and 2, two rows at hour 2
BestTrack11 ==
    << Row(1, "BEST", 0, 0, 11), Row(2, "BEST", 2, 0, 11), Row(2, "BEST", 2, 0, 11) >>
\* a-deck (advisories) of AL112017: two reporting sources at hours 2 and 3, as filed
Advisory11 ==
    << Row(3, "OFCL", 1, 0, 11), Row(2, "OFCL", 0, 0, 11),
       Row(2, "HWRF", 0, 1, 11), Row(3, "HWRF", 2, 1, 11) >>
\* a fort.22 on disk: a best track with fixes at hours 1 and 3, none at hour 2, two
\* rows at hour 3
Fort22 ==
    << Row(1, "BEST", 0, 0, 11), Row(3, "BEST", 1, 0, 11), Row(3, "BEST", 1, 1, 11) >>

\* the files on disk
Files == {"fort.22"}

\* get_atcf_file's answer: the raw file of a storm's deck
RawFile(id, deck) ==
    CASE id = "AL112017" /\ deck = "b" -> BestTrack11
      [] id = "AL112017" /\ deck = "a" -> Advisory11
      [] OTHER -> << >>

\* the lines a path on disk holds
FileContent(path) ==
    IF path = "fort.22" THEN Fort22 ELSE << >>

\* an open binary stream: what it was opened on (a caller's "BytesIO", a "file" on
\* disk, a "remote" download), and whose bytes it holds
Handle(kind, id, deck, m, path) ==
    [kind |-> kind, storm_id |-> id, file_deck |-> deck, mode |-> m, path |-> path]

\* the streams a caller passes as io.BytesIO: the bytes of a best track, of an a-deck
Streams ==
    {Handle("BytesIO", "AL112017", "b", "None", "None"),
     Handle("BytesIO", "AL112017", "a", "None", "None")}

\* the lines a stream holds
StreamLines(handle) ==
    IF handle.kind = "file" THEN FileContent(handle.path)
    ELSE RawFile(handle.storm_id, handle.file_deck)

\* get_atcf_file(storm_id, file_deck, mode): the provider's download.  It fails for a
\* storm it does not know (and for no storm id)
get_atcf_file(id, deck, m) ==
    IF id \in KnownStorms
    THEN [err |-> "none", val |-> Handle("remote", id, deck, m, "None")]
    ELSE [err |-> "RetrievalError", val |-> Handle("remote", id, deck, m, "None")]

\* atcf_id_from_storm_name(storm_name, year): the identity resolver, None if unknown
atcf_id_from_storm_name(name_year) ==
    IF name_year = "irma2017" THEN "AL112017" ELSE "None"

RECURSIVE SelectSeq2(_, _)
\* the rows of a frame whose record_type is among the allowed ones, in order
SelectSeq2(rows, allowed) ==
    IF rows = << >> THEN << >>
    ELSE IF Head(rows).record_type \in allowed
         THEN << Head(rows) >> \o SelectSeq2(Tail(rows), allowed)
         ELSE SelectSeq2(Tail(rows), allowed)

\* read_atcf(atcf, allowed_record_types): the decoder.  atcf is a path (a string) or an
\* open stream; allowed is None or a set of record types.  It returns at least one
\* row or fails
read_atcf(lines, allowed) ==
    LET rows == IF IsNone(allowed) THEN lines ELSE SelectSeq2(lines, Value(allowed))
    IN  IF rows = << >>
        THEN [err |-> "RetrievalError", val |-> rows]
        ELSE [err |-> "none", val |-> rows]

(***************************************************************************)
(* pandas and numpy operations the track uses.                             *)
(***************************************************************************)
\* the order sort_values gives record types: that of their strings
RecordTypeRank(rt) ==
    CASE rt = "BEST" -> 1 [] rt = "CARQ" -> 2 [] rt = "HMON" -> 3
      [] rt = "HWRF" -> 4 [] rt = "OFCL" -> 5 [] rt = "OFCP" -> 6 [] OTHER -> 7

\* row a sorts before or with row b under ['datetime', 'record_type']
RowLeq(a, b) ==
    \/ a.datetime < b.datetime
    \/ /\ a.datetime = b.datetime
       /\ RecordTypeRank(a.record_type) <= RecordTypeRank(b.record_type)

RECURSIVE InsertSorted(_, _)
InsertSorted(row, sorted) ==
    IF sorted = << >> THEN << row >>
    ELSE IF RowLeq(Head(sorted), row)
         THEN << Head(sorted) >> \o InsertSorted(row, Tail(sorted))
         ELSE << row >> \o sorted

RECURSIVE sort_values(_)
\* dataframe.sort_values(['datetime', 'record_type']); reset_index: a stable sort, the
\* labels again 0 .. n-1
sort_values(rows) ==
    IF rows = << >> THEN << >>
    ELSE LET n == Len(rows)
         IN  InsertSorted(rows[n], sort_values(SubSeq(rows, 1, n - 1)))

RECURSIVE Unique(_)
\* pandas.unique: the distinct values of a sequence in order of first appearance
Unique(seq) ==
    IF seq = << >> THEN << >>
    ELSE LET n == Len(seq)
             front == Unique(SubSeq(seq, 1, n - 1))
         IN  IF \E i \in 1 .. Len(front) : front[i] = seq[n]
             THEN front ELSE Append(front, seq[n])

Column(rows, f) == [i \in 1 .. Len(rows) |-> rows[i][f]]

RECURSIVE SetToSortedSeq(_)
\* numpy.unique: the distinct values in ascending order
SetToSortedSeq(S) ==
    IF S = {} THEN << >>
    ELSE LET m == CHOOSE x \in S : \A y \in S : x <= y
         IN  << m >> \o SetToSortedSeq(S \ {m})

numpy_unique(seq) == SetToSortedSeq({seq[i] : i \in 1 .. Len(seq)})

\* pandas.util.hash_pandas_object(frame[['longitude', 'latitude']]).sum(): a fingerprint
\* of the two columns, here the columns themselves
hash_pandas_object(rows) == [i \in 1 .. Len(rows) |-> << rows[i].longitude, rows[i].latitude >>]

(***************************************************************************)
(* The geodesic inverse problem (pyproj.Geod.inv) on the model's grid of   *)
(* whole degrees: the distance is 60 nautical miles per degree moved, the  *)
(* azimuth is in (-180, 180] and follows the signs of the displacement.    *)
(***************************************************************************)
Abs(x) == IF x < 0 THEN 0 - x ELSE x

\* the distance between two points
GeodDistance(lon1, lat1, lon2, lat2) == 60 * (Abs(lon1 - lon2) + Abs(lat1 - lat2))

\* the back azimuth of inv(lon1, lat1, lon2, lat2): the bearing at point 2 towards point 1
GeodBackAzimuth(lon1, lat1, lon2, lat2) ==
    LET dx == lon1 - lon2
        dy == lat1 - lat2
    IN  CASE dx = 0 /\ dy >= 0 -> 0
          [] dx > 0 /\ dy > 0 -> 45
          [] dx > 0 /\ dy = 0 -> 90
          [] dx > 0 /\ dy < 0 -> 135
          [] dx = 0 /\ dy < 0 -> 180
          [] dx < 0 /\ dy < 0 -> 0 - 135
          [] dx < 0 /\ dy = 0 -> 0 - 90
          [] dx < 0 /\ dy > 0 -> 0 - 45

(***************************************************************************)
(* VortexTrack.__compute_velocity                                          *)
(***************************************************************************)
\* the positions (1-based) of the table's rows with the given record_type:
\* data.loc[data['record_type'] == record_type], whose labels are these minus one
ClusterPositions(data, rt) ==
    SelectSeq([i \in 1 .. Len(data) |-> i], LAMBDA i : data[i].record_type = rt)

\* numpy.where(record_data['datetime'] == unique_datetime)[0][0] for each unique
\* datetime: the 0-based position in record_data of its first row
FirstPositions(data, positions) ==
    LET times == [k \in 1 .. Len(positions) |-> data[positions[k]].datetime]
        uniq == Unique(times)
    IN  [u \in 1 .. Len(uniq) |->
            (CHOOSE k \in 1 .. Len(times) :
                /\ times[k] = uniq[u]
                /\ \A j \in 1 .. k - 1 : times[j] # uniq[u]) - 1]

\* numpy.roll(indices, 1) with its first element then set to 0
ShiftedIndices(indices) ==
    [k \in 1 .. Len(indices) |-> IF k = 1 THEN 0 ELSE indices[k - 1]]

\* distances / (intervals / 1 s): a float division
FloatDivide(distance, interval) ==
    IF interval = NaT THEN NaN
    ELSE IF interval = 0 THEN (IF distance = 0 THEN NaN ELSE Infinity)
    ELSE IF interval < 0 THEN 0 - (distance \div (0 - interval))
    ELSE distance \div interval

\* the velocity of one record_type: record_data with speed and direction set, or a
\* KeyError when .loc is given a label record_data does not have
ClusterVelocity(data, rt) ==
    LET positions == ClusterPositions(data, rt)
        labels == {positions[k] - 1 : k \in 1 .. Len(positions)}
        indices == FirstPositions(data, positions)
        shifted_indices == ShiftedIndices(indices)
        \* record_data.loc[label]: the row of the table with that label
        loc(label) == data[label + 1]
        n == Len(indices)
        missing == \E k \in 1 .. n : indices[k] \notin labels \/ shifted_indices[k] \notin labels
        distances == [k \in 1 .. n |->
            GeodDistance(loc(indices[k]).longitude, loc(indices[k]).latitude,
                         loc(shifted_indices[k]).longitude, loc(shifted_indices[k]).latitude)]
        inverse_azimuths == [k \in 1 .. n |->
            GeodBackAzimuth(loc(indices[k]).longitude, loc(indices[k]).latitude,
                            loc(shifted_indices[k]).longitude, loc(shifted_indices[k]).latitude)]
        \* record_data.loc[indices, 'datetime'].diff()
        intervals == [k \in 1 .. n |->
            IF k = 1 THEN NaT ELSE loc(indices[k]).datetime - loc(indices[k - 1]).datetime]
        speeds == [k \in 1 .. n |-> FloatDivide(distances[k], intervals[k])]
        bearings == [k \in 1 .. n |-> inverse_azimuths[k] % 360]
        \* the last index whose datetime a row shares: the loop assigns in order
        Last(i) == CHOOSE k \in 1 .. n :
            /\ loc(indices[k]).datetime = data[positions[i]].datetime
            /\ \A j \in k + 1 .. n : loc(indices[j]).datetime # data[positions[i]].datetime
        Assigned(i) == \E k \in 1 .. n : loc(indices[k]).datetime = data[positions[i]].datetime
    IN  IF missing
        THEN [err |-> "KeyError", val |-> << >>]
        ELSE [err |-> "none",
              val |-> [i \in 1 .. Len(positions) |->
                  IF Assigned(i)
                  THEN [data[positions[i]] EXCEPT !.speed = speeds[Last(i)],
                                                  !.direction = bearings[Last(i)]]
                  ELSE data[positions[i]]]]

RECURSIVE VelocityLoop(_, _, _)
RECURSIVE VelocityStep(_, _, _, _)
\* the loop over pandas.unique(data['record_type']): the frames written so far
VelocityLoop(data, types, done) ==
    IF types = << >> THEN [err |-> "none", val |-> done]
    ELSE VelocityStep(data, types, done, ClusterVelocity(data, Head(types)))

\* one pass of the loop, c the velocity of the first of types
VelocityStep(data, types, done, c) ==
    IF c.err # "none" THEN [err |-> c.err, val |-> done]
    ELSE VelocityLoop(data, Tail(types), Append(done, c.val))

\* the table __compute_velocity leaves in self.__dataframe: the results are written
\* to record_data, which data.loc[mask] made as a copy, so the table keeps its rows
TableAfterVelocity(data, frames) == data

\* what __compute_velocity leaves: err, the table afterwards, and the frames it wrote
VelocityOutcome(data, r) ==
    [err |-> r.err, frames |-> r.val, data |-> TableAfterVelocity(data, r.val)]

\* __compute_velocity()
compute_velocity(data) ==
    VelocityOutcome(data, VelocityLoop(data, Unique(Column(data, "record_type")), << >>))

(***************************************************************************)
(* The track object.  An operation is an operator from the object (a       *)
(* record s of its fields, with the exception raised so far and what was   *)
(* called) to the object afterwards; a getter also gives its value.  The   *)
(* steps of one method are operators that take the object as the steps    *)
(* before left it.                                                         *)
(***************************************************************************)
Configuration(id, deck, m, file) ==
    [storm_id |-> id, file_deck |-> deck, mode |-> m, filename |-> file]

\* the dictionary the getters build from the object's fields
CurrentConfiguration(s) == Configuration(s.storm_id, s.file_deck, s.mode, s.filename)

\* the number of digit characters of a storm id string: a name with a year has the
\* year's four, a basin, number and year has six
Digits(id) == IF id \in {"irma2017", "bogus2017"} THEN 4 ELSE 6

\* f'{basin}{storm_number}{year}' of a row
FormatStormId(row) == IF row.storm_number = 11 THEN "AL112017" ELSE "AL992017"

\* the row's name and year, as atcf_id_from_storm_name is given them
FormatNameYear(row) == IF row.storm_number = 11 THEN "irma2017" ELSE "bogus2017"

Raise(s, e) == [s EXCEPT !.err = e]

\* the storm id after the lookup of a name and year
ResolvedStormId(s, atcf_id) ==
    IF atcf_id = "None" THEN Raise(s, "ValueError") ELSE [s EXCEPT !.storm_id = atcf_id]

\* storm_id.setter
storm_id_setter(s, id) ==
    IF id # "None" /\ Digits(id) = 4
    THEN ResolvedStormId(s, atcf_id_from_storm_name(id))
    ELSE [s EXCEPT !.storm_id = id]

\* the try/except of the storm_id getter: the id of the last row, else the id of
\* its name and year, else the name is marked invalid
DerivedStormId(s, first, second) ==
    IF first.err = "none" THEN first
    ELSE IF second.err = "none" THEN second
    ELSE [s EXCEPT !.invalid_storm_name = TRUE]

LastRow(s) == Value(s.dataframe)[Len(Value(s.dataframe))]

\* storm_id (getter): derives the id from the table's last row when none is set
storm_id_getter(s) ==
    IF s.storm_id = "None" /\ ~s.invalid_storm_name /\ ~IsNone(s.dataframe)
    THEN DerivedStormId(s, storm_id_setter(s, FormatStormId(LastRow(s))),
                        storm_id_setter(s, atcf_id_from_storm_name(FormatNameYear(LastRow(s)))))
    ELSE s

\* filename.setter
filename_setter(s, file) == [s EXCEPT !.filename = file]

\* file_deck.setter: None means the a-deck
file_deck_setter(s, deck) == [s EXCEPT !.file_deck = IF deck = "None" THEN "a" ELSE deck]

\* mode.setter: None means historical
mode_setter(s, m) == [s EXCEPT !.mode = IF m = "None" THEN "historical" ELSE m]

\* str.upper() on the record types a caller writes
Upper(rt) ==
    CASE rt = "best" -> "BEST" [] rt = "ofcl" -> "OFCL" [] rt = "hwrf" -> "HWRF" [] OTHER -> rt

\* the record types a file deck allows
AllowedRecordTypes(deck) ==
    IF deck = "a" THEN {"OFCL", "OFCP", "HWRF", "HMON", "CARQ"} ELSE {"BEST"}

\* record_type.setter
record_type_setter(s, rt) ==
    IF rt # "None"
    THEN IF s.file_deck \notin {"a", "b"} THEN Raise(s, "NotImplementedError")
         ELSE IF Upper(rt) \notin AllowedRecordTypes(s.file_deck) THEN Raise(s, "ValueError")
         ELSE [s EXCEPT !.record_type = Upper(rt)]
    ELSE [s EXCEPT !.record_type = rt]

\* the object after get_atcf_file answered got
Downloaded(s, got) ==
    IF got.err # "none" THEN Raise([s EXCEPT !.downloads = @ + 1], got.err)
    ELSE [s EXCEPT !.downloads = @ + 1, !.remote_atcf = Some(got.val)]

\* whether the remote_atcf getter downloads
MustDownload(s) ==
    \/ s.storm_id # "None" /\ IsNone(s.remote_atcf)
    \/ CurrentConfiguration(s) # s.previous_configuration

\* remote_atcf (getter), the storm id read: the stream is in s.remote_atcf afterwards
RemoteAtcf(s) ==
    IF MustDownload(s) THEN Downloaded(s, get_atcf_file(s.storm_id, s.file_deck, s.mode))
    ELSE s

\* remote_atcf (getter)
remote_atcf_getter(s) == RemoteAtcf(storm_id_getter(s))

\* the object after __compute_velocity left v
AfterVelocity(s, v) ==
    IF v.err # "none"
    THEN Raise([s EXCEPT !.engine_runs = @ + 1, !.record_data = v.frames,
                         !.dataframe = Some(v.data)], v.err)
    ELSE [s EXCEPT !.engine_runs = @ + 1, !.record_data = v.frames,
                   !.dataframe = Some(v.data),
                   !.location_hash = Some(hash_pandas_object(Value(s.dataframe)))]

\* a dataframe getter that takes the locations as changed at every read
LocationChangedAlways(s) == TRUE

\* whether the location hash of the table differs from the one stored
LocationChanged(s) ==
    IsNone(s.location_hash) \/ Some(hash_pandas_object(Value(s.dataframe))) # s.location_hash

\* the end of the dataframe getter: recompute the velocity if the locations changed
RecomputeVelocity(s) ==
    IF LocationChanged(s) THEN AfterVelocity(s, compute_velocity(Value(s.dataframe))) ELSE s

\* a dataframe getter that fetches on every read
MustFetchAlways(s, configuration) == TRUE

\* whether the dataframe getter fetches: no table, an empty one, or a new configuration
MustFetch(s, configuration) ==
    \/ IsNone(s.dataframe)
    \/ Len(Value(s.dataframe)) = 0
    \/ configuration # s.previous_configuration

\* allowed_record_types of the fetch
FetchRecordTypes(s) ==
    IF s.record_type # "None" THEN Some({s.record_type})
    ELSE IF s.filename # "None" THEN None ELSE Some({"BEST", "OFCL"})

\* the lines read_atcf is given: those of the file named, else of the remote stream
FetchLines(s) ==
    IF s.filename # "None" THEN FileContent(s.filename)
    ELSE IF IsNone(s.remote_atcf) THEN << >>
    ELSE StreamLines(Value(s.remote_atcf))

\* the object after read_atcf answered read: the table sorted, the configuration kept
Decoded(s, read, configuration) ==
    IF read.err # "none" THEN Raise([s EXCEPT !.decodes = @ + 1], read.err)
    ELSE [s EXCEPT !.decodes = @ + 1, !.dataframe = Some(sort_values(read.val)),
                   !.previous_configuration = configuration]

\* the fetch, with the stream opened
Decode(s, configuration) ==
    IF s.err # "none" THEN s
    ELSE Decoded(s, read_atcf(FetchLines(s), FetchRecordTypes(s)), configuration)

\* the fetch of the dataframe getter
Fetch(s) ==
    IF s.filename # "None" THEN Decode(s, CurrentConfiguration(s))
    ELSE Decode(remote_atcf_getter(s), CurrentConfiguration(s))

FetchIfNeeded(s) == IF MustFetch(s, CurrentConfiguration(s)) THEN Fetch(s) ELSE s

\* the end of the dataframe getter, reached unless the fetch raised
RecomputeIfRead(s) == IF s.err # "none" THEN s ELSE RecomputeVelocity(s)

\* dataframe (getter): s afterwards, with the table in s.dataframe unless s.err is set
dataframe_getter(s) == RecomputeIfRead(FetchIfNeeded(storm_id_getter(s)))

\* ['datetime'].iloc[k] of the table read into s, k = 0 (first row) or -1 (last)
DatetimeAt(s, last) ==
    IF s.err # "none" THEN [s |-> s, val |-> 0]
    ELSE IF Len(Value(s.dataframe)) = 0 THEN [s |-> Raise(s, "IndexError"), val |-> 0]
    ELSE [s |-> s, val |-> IF last THEN Value(s.dataframe)[Len(Value(s.dataframe))].datetime
                           ELSE Value(s.dataframe)[1].datetime]

\* self.dataframe['datetime'].iloc[k]: the object after the read, and the value
ReadDatetimeAt(s, last) == DatetimeAt(dataframe_getter(s), last)

\* a bounds test that lets every date after the last row pass
AboveLastUnchecked(last, date) == [s |-> last.s, val |-> FALSE]

\* the second operand of the bounds test, date > iloc[-1], last the read of it
AboveLast(last, date) ==
    IF last.s.err # "none" THEN [s |-> last.s, val |-> FALSE]
    ELSE [s |-> last.s, val |-> date > last.val]

\* the first operand of the bounds test, date < iloc[0], first the read of it
BelowFirst(first, date) ==
    IF first.s.err # "none" THEN [s |-> first.s, val |-> FALSE]
    ELSE IF date < first.val THEN [s |-> first.s, val |-> TRUE]
    ELSE AboveLast(ReadDatetimeAt(first.s, TRUE), date)

\* whether a date is outside the table's first and last row, as both setters test it:
\* date < iloc[0] or date > iloc[-1], each operand a read of self.dataframe
OutsideDataBounds(s, date) == BelowFirst(ReadDatetimeAt(s, FALSE), date)

\* start_date = None: the first row's timestamp, read the read of it
DefaultStartDate(read) ==
    IF read.s.err # "none" THEN read.s ELSE [read.s EXCEPT !.start_date = Some(read.val)]

\* the assignment of start_date after the bounds test
CheckedStartDate(outside, date) ==
    IF outside.s.err # "none" THEN outside.s
    ELSE IF outside.val THEN Raise(outside.s, "ValueError")
    ELSE [outside.s EXCEPT !.start_date = date]

\* start_date.setter
start_date_setter(s, date) ==
    IF IsNone(date) THEN DefaultStartDate(ReadDatetimeAt(s, FALSE))
    ELSE CheckedStartDate(OutsideDataBounds(s, Value(date)), date)

\* end_date = None: the last row's timestamp, read the read of it
DefaultEndDate(read) ==
    IF read.s.err # "none" THEN read.s ELSE [read.s EXCEPT !.end_date = Some(read.val)]

\* an end_date setter that refuses only a date before start_date
CheckedEndDateBefore(outside, date) ==
    IF outside.s.err # "none" THEN outside.s
    ELSE IF outside.val THEN Raise(outside.s, "ValueError")
    ELSE IF IsNone(outside.s.start_date) THEN Raise(outside.s, "TypeError")
    ELSE IF Value(date) < Value(outside.s.start_date) THEN Raise(outside.s, "ValueError")
    ELSE [outside.s EXCEPT !.end_date = date]

\* the assignment of end_date after the bounds test: the end must be after the start
CheckedEndDate(outside, date) ==
    IF outside.s.err # "none" THEN outside.s
    ELSE IF outside.val THEN Raise(outside.s, "ValueError")
    ELSE IF IsNone(outside.s.start_date) THEN Raise(outside.s, "TypeError")
    ELSE IF Value(date) <= Value(outside.s.start_date) THEN Raise(outside.s, "ValueError")
    ELSE [outside.s EXCEPT !.end_date = date]

\* end_date.setter
end_date_setter(s, date) ==
    IF IsNone(date) THEN DefaultEndDate(ReadDatetimeAt(s, TRUE))
    ELSE CheckedEndDate(OutsideDataBounds(s, Value(date)), date)

\* the end timestamp without the snap: end_date itself
FirstNotBeforeExact(unique_dates, end) == Some(end)

\* the first of the ascending distinct timestamps that is >= end_date, None without
FirstNotBefore(unique_dates, end) ==
    IF {k \in 1 .. Len(unique_dates) : unique_dates[k] >= end} = {} THEN None
    ELSE Some(unique_dates[CHOOSE k \in 1 .. Len(unique_dates) :
                              /\ unique_dates[k] >= end
                              /\ \A j \in 1 .. k - 1 : unique_dates[j] < end])

\* __file_end_date of the table read into s
FileEndDate(s) ==
    IF s.err # "none" THEN [s |-> s, val |-> None]
    ELSE [s |-> s, val |-> FirstNotBefore(numpy_unique(Column(Value(s.dataframe), "datetime")),
                                          Value(s.end_date))]

\* __file_end_date: the first of the table's distinct timestamps, ascending, that is
\* >= end_date; None when there is none
file_end_date(s) == FileEndDate(dataframe_getter(s))

Rows(selected) == [i \in 1 .. Len(selected) |-> selected[i].row]

\* frame.loc[mask] in s: the rows the boolean mask selects; the mask must be as long
Loc(s, rows, mask) ==
    IF Len(mask) # Len(rows) THEN [s |-> Raise(s, "IndexingError"), val |-> << >>]
    ELSE [s |-> s,
          val |-> Rows(SelectSeq([i \in 1 .. Len(rows) |-> [row |-> rows[i], keep |-> mask[i]]],
                                 LAMBDA x : x.keep))]

\* self.dataframe['datetime'] >= self.start_date
StartDateMask(rows, start) == [i \in 1 .. Len(rows) |-> rows[i].datetime >= start]

\* start_date_mask & (self.dataframe['datetime'] <= self.__file_end_date): the masks
\* must be as long as each other
WindowMask(start_date_mask, rows, end) ==
    IF Len(rows) # Len(start_date_mask) THEN << >>
    ELSE [i \in 1 .. Len(rows) |-> start_date_mask[i] /\ rows[i].datetime <= end]

\* the return with an end date, the end timestamp looked up: frame is the table
\* .loc is taken of, compared the table whose timestamps are compared with the end
Windowed(start_date_mask, frame, compared, end) ==
    IF end.s.err # "none" THEN [s |-> end.s, val |-> << >>]
    ELSE IF IsNone(end.val) THEN [s |-> Raise(end.s, "TypeError"), val |-> << >>]
    ELSE Loc(end.s, frame, WindowMask(start_date_mask, compared, Value(end.val)))

\* the return with an end date, the table read for the comparison into s
WindowedCompared(start_date_mask, frame, s) ==
    IF s.err # "none" THEN [s |-> s, val |-> << >>]
    ELSE Windowed(start_date_mask, frame, Value(s.dataframe), file_end_date(s))

\* the return with an end date, the table read for .loc into s
WindowedFrom(start_date_mask, s) ==
    IF s.err # "none" THEN [s |-> s, val |-> << >>]
    ELSE WindowedCompared(start_date_mask, Value(s.dataframe), dataframe_getter(s))

\* the return without an end date, the table read for .loc into s
OnlyStart(start_date_mask, s) ==
    IF s.err # "none" THEN [s |-> s, val |-> << >>]
    ELSE Loc(s, Value(s.dataframe), start_date_mask)

\* the rest of data, the start mask computed
DataWithMask(s, start_date_mask) ==
    IF IsNone(s.end_date) THEN OnlyStart(start_date_mask, dataframe_getter(s))
    ELSE WindowedFrom(start_date_mask, dataframe_getter(s))

\* data, the table read for the start mask
DataOf(s) ==
    IF s.err # "none" THEN [s |-> s, val |-> << >>]
    ELSE IF IsNone(s.start_date) THEN [s |-> Raise(s, "TypeError"), val |-> << >>]
    ELSE DataWithMask(s, StartDateMask(Value(s.dataframe), Value(s.start_date)))

\* data (getter): the object afterwards and the rows returned
data_getter(s) == DataOf(dataframe_getter(s))

(***************************************************************************)
(* Construction.                                                           *)
(***************************************************************************)
\* the object as __init__ has it before its first setter call
Blank ==
    [dataframe |-> None, filename |-> "None", remote_atcf |-> None, storm_id |-> "None",
     start_date |-> None, end_date |-> None, file_deck |-> "None", mode |-> "None",
     record_type |-> "None", invalid_storm_name |-> FALSE, location_hash |-> None,
     previous_configuration |-> Configuration("None", "None", "None", "None"),
     record_data |-> << >>, err |-> "none", downloads |-> 0, decodes |-> 0,
     engine_runs |-> 0]

\* the tables a caller passes as a DataFrame: a sorted best track, a best track whose
\* rows are not in time order, and a table of two record types
Frames ==
    { Fort22,
      << Row(2, "BEST", 1, 0, 11), Row(1, "BEST", 0, 0, 11), Row(3, "BEST", 2, 0, 11) >>,
      << Row(1, "OFCL", 0, 0, 11), Row(1, "HWRF", 0, 1, 11), Row(2, "OFCL", 1, 0, 11) >> }

\* the strings a caller passes as storm: storm ids, names with a year, a path
StormStrings == {"AL112017", "irma2017", "bogus2017", "fort.22"}

\* os.path.exists
PathExists(path) == path \in Files

\* the dispatch of __init__ on the type of storm
InitStorm(s, storm) ==
    CASE storm.kind = "DataFrame" -> [s EXCEPT !.dataframe = Some(storm.value)]
      [] storm.kind = "BytesIO" -> [s EXCEPT !.remote_atcf = Some(storm.value)]
      [] storm.kind = "str" ->
            IF PathExists(storm.value)
            THEN [s EXCEPT !.remote_atcf =
                     Some(Handle("file", "None", "None", "None", storm.value))]
            ELSE storm_id_setter(s, storm.value)

\* self.__previous_configuration = {'storm_id': self.storm_id, ...}, the id read
InitConfiguration(s) == [s EXCEPT !.previous_configuration = CurrentConfiguration(s)]

\* the statements of __init__ after self.record_type = record_type, each reached
\* unless an earlier one raised
InitFilename(s, file) == IF s.err # "none" THEN s ELSE filename_setter(s, file)
InitSource(s, storm) == IF s.err # "none" THEN s ELSE InitStorm(s, storm)
InitPrevious(s) == IF s.err # "none" THEN s ELSE InitConfiguration(storm_id_getter(s))
InitStartDate(s, start) == IF s.err # "none" THEN s ELSE start_date_setter(s, start)
InitEndDate(s, end) == IF s.err # "none" THEN s ELSE end_date_setter(s, end)

\* VortexTrack.__init__
init(storm, start, end, deck, m, rt, file) ==
    InitEndDate(
        InitStartDate(
            InitPrevious(
                InitSource(
                    InitFilename(
                        record_type_setter(
                            mode_setter(
                                file_deck_setter([Blank EXCEPT !.start_date = start], deck),
                                m),
                            rt),
                        file),
                    storm)),
            start),
        end)

(***************************************************************************)
(* The state machine: one action per call a caller makes on the track.     *)
(***************************************************************************)
\* the object as the variables hold it, at the start of an operation
Self ==
    [dataframe |-> dataframe, filename |-> filename, remote_atcf |-> remote_atcf,
     storm_id |-> storm_id, start_date |-> start_date, end_date |-> end_date,
     file_deck |-> file_deck, mode |-> mode, record_type |-> record_type,
     invalid_storm_name |-> invalid_storm_name, location_hash |-> location_hash,
     previous_configuration |-> previous_configuration, record_data |-> record_data,
     err |-> "none", downloads |-> 0, decodes |-> 0, engine_runs |-> 0]

\* the variables after an operation that left the object as s
Install(s, name, rows) ==
    /\ dataframe' = s.dataframe
    /\ filename' = s.filename
    /\ remote_atcf' = s.remote_atcf
    /\ storm_id' = s.storm_id
    /\ start_date' = s.start_date
    /\ end_date' = s.end_date
    /\ file_deck' = s.file_deck
    /\ mode' = s.mode
    /\ record_type' = s.record_type
    /\ invalid_storm_name' = s.invalid_storm_name
    /\ location_hash' = s.location_hash
    /\ previous_configuration' = s.previous_configuration
    /\ record_data' = s.record_data
    /\ op' = name
    /\ raised' = s.err
    /\ returned' = rows
    /\ downloads' = s.downloads
    /\ decodes' = s.decodes
    /\ engine_runs' = s.engine_runs

OptionalDates == {None} \cup {Some(d) : d \in Dates}
FileDeckArguments == {"None", "a", "b"}
ModeArguments == {"None", "historical"}
RecordTypeArguments == {"None", "hwrf", "OFCL", "BEST"}
FilenameArguments == {"None"} \cup Files
StormIdArguments == {"None", "AL112017", "irma2017", "bogus2017"}
StormArguments ==
    [kind : {"DataFrame"}, value : Frames] \cup [kind : {"BytesIO"}, value : Streams]
        \cup [kind : {"str"}, value : StormStrings]

\* what a caller passed as storm
SourceOf(storm) ==
    IF storm.kind # "str" THEN storm.kind
    ELSE IF PathExists(storm.value) THEN "path" ELSE "identity"

Init ==
    /\ dataframe = Blank.dataframe
    /\ filename = Blank.filename
    /\ remote_atcf = Blank.remote_atcf
    /\ storm_id = Blank.storm_id
    /\ start_date = Blank.start_date
    /\ end_date = Blank.end_date
    /\ file_deck = Blank.file_deck
    /\ mode = Blank.mode
    /\ record_type = Blank.record_type
    /\ invalid_storm_name = Blank.invalid_storm_name
    /\ location_hash = Blank.location_hash
    /\ previous_configuration = Blank.previous_configuration
    /\ record_data = Blank.record_data
    /\ op = "none"
    /\ raised = "none"
    /\ returned = << >>
    /\ downloads = 0
    /\ decodes = 0
    /\ engine_runs = 0
    /\ constructed = "no"
    /\ source = "none"
    /\ moves = 0
    /\ reconfigured = FALSE
    /\ assigned = None
    /\ disk = None
    /\ isotach = None
    /\ storm_argument = None

\* the variables after a constructor that left s: no object when it raised
Constructed(s) ==
    /\ IF s.err = "none"
       THEN Install(s, "init", << >>)
       ELSE Install([Blank EXCEPT !.err = s.err, !.downloads = s.downloads,
                                  !.decodes = s.decodes, !.engine_runs = s.engine_runs],
                    "init", << >>)
    /\ constructed' = IF s.err = "none" THEN "yes" ELSE "failed"

\* VortexTrack(storm, start_date, end_date, file_deck, mode, record_type, filename)
Construct ==
    /\ constructed = "no"
    /\ \E storm \in StormArguments, start \in OptionalDates, end \in OptionalDates,
          deck \in FileDeckArguments, m \in ModeArguments, rt \in RecordTypeArguments,
          file \in FilenameArguments :
            /\ Constructed(init(storm, start, end, deck, m, rt, file))
            /\ source' = SourceOf(storm)
    /\ assigned' = None
    /\ UNCHANGED <<moves, reconfigured, disk, isotach, storm_argument>>

\* track.start_date = date
SetStartDate ==
    /\ constructed = "yes"
    /\ \E date \in OptionalDates :
          /\ Install(start_date_setter(Self, date), "start_date", << >>)
          /\ assigned' = date
    /\ UNCHANGED <<constructed, source, moves, reconfigured, disk, isotach, storm_argument>>

\* track.end_date = date
SetEndDate ==
    /\ constructed = "yes"
    /\ \E date \in OptionalDates :
          /\ Install(end_date_setter(Self, date), "end_date", << >>)
          /\ assigned' = date
    /\ UNCHANGED <<constructed, source, moves, reconfigured, disk, isotach, storm_argument>>

\* track.record_type = rt
SetRecordType ==
    /\ constructed = "yes"
    /\ \E rt \in RecordTypeArguments : Install(record_type_setter(Self, rt), "record_type", << >>)
    /\ assigned' = None
    /\ UNCHANGED <<constructed, source, moves, reconfigured, disk, isotach, storm_argument>>

\* track.file_deck = deck
SetFileDeck ==
    /\ constructed = "yes"
    /\ \E deck \in FileDeckArguments : Install(file_deck_setter(Self, deck), "file_deck", << >>)
    /\ reconfigured' = TRUE
    /\ assigned' = None
    /\ UNCHANGED <<constructed, source, moves, disk, isotach, storm_argument>>

\* track.mode = m
SetMode ==
    /\ constructed = "yes"
    /\ \E m \in ModeArguments : Install(mode_setter(Self, m), "mode", << >>)
    /\ reconfigured' = TRUE
    /\ assigned' = None
    /\ UNCHANGED <<constructed, source, moves, disk, isotach, storm_argument>>

\* track.filename = file
SetFilename ==
    /\ constructed = "yes"
    /\ \E file \in FilenameArguments : Install(filename_setter(Self, file), "filename", << >>)
    /\ reconfigured' = TRUE
    /\ assigned' = None
    /\ UNCHANGED <<constructed, source, moves, disk, isotach, storm_argument>>

\* track.storm_id = id
SetStormId ==
    /\ constructed = "yes"
    /\ \E id \in StormIdArguments :
          Install(storm_id_setter(Self, id), "storm_id", << >>)
    /\ reconfigured' = TRUE
    /\ assigned' = None
    /\ UNCHANGED <<constructed, source, moves, disk, isotach, storm_argument>>

\* the variables after data answered r
DataRead(r) == Install(r.s, "data", r.val)

\* track.data
GetData ==
    /\ constructed = "yes"
    /\ DataRead(data_getter(Self))
    /\ assigned' = None
    /\ UNCHANGED <<constructed, source, moves, reconfigured, disk, isotach, storm_argument>>

\* the variables after dataframe left s
DataframeRead(s) == Install(s, "dataframe", IF s.err = "none" THEN Value(s.dataframe) ELSE << >>)

\* track.dataframe
GetDataframe ==
    /\ constructed = "yes"
    /\ DataframeRead(dataframe_getter(Self))
    /\ assigned' = None
    /\ UNCHANGED <<constructed, source, moves, reconfigured, disk, isotach, storm_argument>>

\* the caller's write to the table that dataframe returned into s
Moved(s) ==
    /\ s.err = "none"
    /\ \E i \in 1 .. Len(Value(s.dataframe)) :
          Install([s EXCEPT !.dataframe =
                      Some([Value(s.dataframe) EXCEPT
                               ![i].longitude = @ - 1, ![i].latitude = @ + 1])],
                  "move", << >>)

\* track.dataframe.at[label, 'longitude'] -= 1; track.dataframe.at[label, 'latitude'] += 1
\* (the table a read returns is the track's own, so the caller's write lands in it)
MoveFix ==
    /\ constructed = "yes"
    /\ moves < MaxMoves
    /\ Moved(dataframe_getter(Self))
    /\ moves' = moves + 1
    /\ assigned' = None
    /\ UNCHANGED <<constructed, source, reconfigured, disk, isotach, storm_argument>>

\* a caller that constructs a track, configures it, sets its window and reads it
Next ==
    \/ Construct
    \/ SetStartDate
    \/ SetEndDate
    \/ SetRecordType
    \/ SetFileDeck
    \/ SetMode
    \/ SetFilename
    \/ SetStormId
    \/ GetData
    \/ GetDataframe

Spec == Init /\ [][Next]_vars

\* a caller that constructs a track, moves fixes of its table and reads it
NextVelocity ==
    \/ Construct
    \/ MoveFix
    \/ GetData
    \/ GetDataframe

SpecVelocity == Init /\ [][NextVelocity]_vars

(***************************************************************************)
(* Serialization: record numbers, the ATCF lines of __str__, and write.    *)
(* Pressures are held in tenths of a millibar, so that a table can hold a  *)
(* pressure that is no whole number of millibars.                          *)
(***************************************************************************)
\* a background pressure cell that holds None
Unset == 0 - 3

\* a fix with its central and background pressure
Fix(t, lon, lat, central, background) ==
    Row(t, "BEST", lon, lat, 11)
        @@ [central_pressure |-> central, background_pressure |-> background]

\* the tables a caller passes to serialize: a track with a southern and western fix,
\* an undefined central pressure and an unset background pressure; a track whose rows
\* are not in time order; a track whose pressures are no whole millibars; a track
\* that has no background pressure; a track whose background pressure is set in its
\* first row only
SerialFrames ==
    { << Fix(1, 1, 1, 10150, 10100), Fix(2, 0 - 1, 0 - 2, 10100, Unset),
         Fix(2, 0 - 1, 0 - 2, NaN, 10120), Fix(3, 0, 0, 10000, 9900) >>,
      << Fix(1, 0, 0, 10000, 10130), Fix(3, 2, 0, 10140, 10130),
         Fix(2, 1, 0, 10120, 10130), Fix(3, 2, 0, 10140, 10130) >>,
      << Fix(1, 0, 0, 10126, 10100), Fix(2, 1, 0, 10124, 10128),
         Fix(3, 2, 0, 10135, 10140) >>,
      << Fix(1, 0, 0, 10000, Unset), Fix(2, 1, 0, 10000, Unset) >>,
      << Fix(1, 0, 0, 10000, 10050), Fix(2, 1, 0, 10000, Unset),
         Fix(3, 2, 0, 10000, Unset) >> }

\* numpy.empty: the cells hold whatever the memory held until they are assigned
Uninitialized == 0 - 1

\* numpy.empty((len(self.data)), dtype=int), data read into r
EmptyArray(r) ==
    IF r.s.err # "none" THEN [s |-> r.s, val |-> << >>]
    ELSE [s |-> r.s, val |-> [i \in 1 .. Len(r.val) |-> Uninitialized]]

\* record_numbers[self.data['datetime'] == record_datetime] = index + 1, data
\* read into r for the mask
NumberAssigned(r, numbers, record_datetime, index) ==
    IF r.s.err # "none" THEN [s |-> r.s, val |-> << >>]
    ELSE IF Len(r.val) # Len(numbers) THEN [s |-> Raise(r.s, "IndexError"), val |-> << >>]
    ELSE [s |-> r.s,
          val |-> [i \in 1 .. Len(numbers) |->
                      IF r.val[i].datetime = record_datetime THEN index + 1
                      ELSE numbers[i]]]

RECURSIVE NumberLoop(_, _, _)
\* the loop of record_numbers over enumerate(unique timestamps) from index on,
\* n the object and the array so far
NumberLoop(n, dates, index) ==
    IF n.s.err # "none" \/ index >= Len(dates) THEN n
    ELSE NumberLoop(NumberAssigned(data_getter(n.s), n.val, dates[index + 1], index),
                    dates, index + 1)

\* the loop, data read into u for self.data['datetime'].unique()
NumbersOver(numbers, u) ==
    IF u.s.err # "none" THEN [s |-> u.s, val |-> << >>]
    ELSE NumberLoop([s |-> u.s, val |-> numbers], Unique(Column(u.val, "datetime")), 0)

\* record_numbers after the array was made
NumbersFrom(e) ==
    IF e.s.err # "none" THEN e ELSE NumbersOver(e.val, data_getter(e.s))

\* record_numbers (property): the object afterwards and the array returned
record_numbers(s) == NumbersFrom(EmptyArray(data_getter(s)))

\* the pressure of the standard atmosphere, in millibars
StandardPressure == 1013

\* what normalize_atcf_value returns for a missing value: an empty field
EmptyField == 0 - 4

\* round(value, 0) of a value in tenths, as a value in tenths: to the nearest whole
\* number, a half to the even one
Round0(x) ==
    IF x % 10 < 5 THEN x - (x % 10)
    ELSE IF x % 10 > 5 THEN x - (x % 10) + 10
    ELSE IF (x \div 10) % 2 = 0 THEN x - 5 ELSE x + 5

\* normalize_atcf_value(value, to_type=int, round_digits=0) of a value in tenths
normalize_atcf_value(value) ==
    IF value \in {NaN, Unset} THEN EmptyField ELSE Round0(value) \div 10

\* whether a column of a table is of a float dtype: it is an object column when a
\* cell of it holds None
FloatColumn(rows, f) == \A i \in 1 .. Len(rows) : rows[i][f] # Unset

\* dataframe[column].round(0) of a cell
RoundCell(x) == IF x \in {NaN, Unset} THEN x ELSE Round0(x)

\* the view after its float columns were rounded
RoundFloats(view, background_is_float) ==
    [i \in 1 .. Len(view) |->
        [view[i] EXCEPT
            !.central_pressure = RoundCell(@),
            !.background_pressure = IF background_is_float THEN RoundCell(@) ELSE @]]

\* Series.iloc[k], k counted from zero and from the end when it is negative
Iloc(rows, k) == IF k < 0 THEN rows[Len(rows) + k + 1] ELSE rows[k + 1]

\* a coordinate as a line holds it: the number written, as a fraction, and the letter
Coordinate(numerator, denominator, hemisphere) ==
    [numerator |-> numerator, denominator |-> denominator, hemisphere |-> hemisphere]

\* normalize_atcf_value(degrees / 0.1, to_type=int, round_digits=1)
Tenths(degrees) == degrees * 10

\* f'{latitude:>4}N' or f'{latitude * -.1:>4}S', latitude in tenths of a degree
LatitudeField(latitude) ==
    IF latitude >= 0 THEN Coordinate(latitude, 1, "N")
    ELSE Coordinate(0 - latitude, 10, "S")

\* f'{longitude:>5}E' or f'{longitude * -1:>5}W', longitude in tenths of a degree
LongitudeField(longitude) ==
    IF longitude >= 0 THEN Coordinate(longitude, 1, "E")
    ELSE Coordinate(longitude * (0 - 1), 1, "W")

\* the background pressure a line gets, from the central pressure and the background
\* pressure of the record: the error raised and the value
BackgroundPressure(central, background) ==
    IF central # NaN /\ background = Unset
    THEN [err |-> "TypeError", val |-> EmptyField]
    ELSE IF central # NaN /\ background <= central /\ StandardPressure * 10 > central
    THEN [err |-> "none", val |-> StandardPressure]
    ELSE IF central # NaN /\ background <= central /\ StandardPressure * 10 <= central
    THEN [err |-> "none", val |-> normalize_atcf_value(central + 10)]
    ELSE [err |-> "none", val |-> normalize_atcf_value(background)]

\* self.data['background_pressure'].iloc[index - 1], data read into r
PreviousBackground(r, index) ==
    IF r.s.err # "none" THEN [s |-> r.s, val |-> Unset]
    ELSE IF Len(r.val) < index \/ r.val = << >>
    THEN [s |-> Raise(r.s, "IndexError"), val |-> Unset]
    ELSE [s |-> r.s, val |-> Iloc(r.val, index - 1).background_pressure]

\* record['background_pressure'] after the statement that fills a None
FilledBackground(s, record, index) ==
    IF record.background_pressure = Unset THEN PreviousBackground(data_getter(s), index)
    ELSE [s |-> s, val |-> record.background_pressure]

\* a line of __str__
Line(record, background_pressure, record_number) ==
    [datetime |-> record.datetime,
     latitude |-> LatitudeField(Tenths(record.latitude)),
     longitude |-> LongitudeField(Tenths(record.longitude)),
     background_pressure |-> background_pressure,
     record_number |-> record_number]

\* lines.append(...) of a record, its background pressure p computed
LineWith(s, lines, record, numbers, index, p) ==
    IF p.err # "none" THEN [s |-> Raise(s, p.err), val |-> << >>]
    ELSE IF index >= Len(numbers) THEN [s |-> Raise(s, "IndexError"), val |-> << >>]
    ELSE [s |-> s, val |-> Append(lines, Line(record, p.val, numbers[index + 1]))]

\* the body of the loop of __str__ for a record, its background pressure b filled
LineAppended(lines, record, numbers, index, b) ==
    IF b.s.err # "none" THEN [s |-> b.s, val |-> << >>]
    ELSE LineWith(b.s, lines, record, numbers, index,
                  BackgroundPressure(record.central_pressure, b.val))

RECURSIVE StrLoop(_, _, _, _)
\* the loop of __str__ over enumerate(dataframe.iterrows()) from index on, acc the
\* object and the lines so far
StrLoop(acc, view, numbers, index) ==
    IF acc.s.err # "none" \/ index >= Len(view) THEN acc
    ELSE StrLoop(LineAppended(acc.val, view[index + 1], numbers, index,
                              FilledBackground(acc.s, view[index + 1], index)),
                 view, numbers, index + 1)

\* __str__ from dataframe = self.data on, data read into d
StrOver(numbers, d) ==
    IF d.s.err # "none" THEN [s |-> d.s, val |-> << >>]
    ELSE StrLoop([s |-> d.s, val |-> << >>],
                 RoundFloats(d.val, FloatColumn(Value(d.s.dataframe), "background_pressure")),
                 numbers, 0)

\* __str__ after record_numbers = self.record_numbers
StrFrom(n) ==
    IF n.s.err # "none" THEN n ELSE StrOver(n.val, data_getter(n.s))

\* __str__: the object afterwards and the lines returned
str(s) == StrFrom(record_numbers(s))

\* the test of write that lets it write, mutated: the existing file is not looked at
MustWriteAlways(overwrite, exists) == TRUE

\* overwrite or not path.exists()
MustWrite(overwrite, exists) == overwrite \/ ~exists

\* the destination after with open(path, 'w') as f: f.write(str(self)), str left r:
\* open has emptied the file before str is called
Destination(r) == IF r.s.err = "none" THEN Some(r.val) ELSE Some(<< >>)

(***************************************************************************)
(* The callers of the serializer.                                          *)
(***************************************************************************)
\* VortexTrack(table, start_date, end_date)
ConstructTable ==
    /\ constructed = "no"
    /\ \E table \in SerialFrames, start \in OptionalDates, end \in OptionalDates :
          Constructed(init([kind |-> "DataFrame", value |-> table], start, end,
                           "None", "None", "None", "None"))
    /\ source' = "DataFrame"
    /\ assigned' = None
    /\ UNCHANGED <<moves, reconfigured, disk, isotach, storm_argument>>

\* the variables after an operation that returned r.val and left the object as r.s
Returned(r, name) == Install(r.s, name, r.val)

\* track.record_numbers
GetRecordNumbers ==
    /\ constructed = "yes"
    /\ Returned(record_numbers(Self), "record_numbers")
    /\ assigned' = None
    /\ UNCHANGED <<constructed, source, moves, reconfigured, disk, isotach, storm_argument>>

\* str(track)
Str ==
    /\ constructed = "yes"
    /\ Returned(str(Self), "str")
    /\ assigned' = None
    /\ UNCHANGED <<constructed, source, moves, reconfigured, disk, isotach, storm_argument>>

\* the variables after write wrote what str left as r
Wrote(r, name) ==
    /\ Install(r.s, name, << >>)
    /\ disk' = Destination(r)

\* the name of a call of write
WriteName(overwrite) == IF overwrite THEN "write_overwrite" ELSE "write"

\* track.write(path, overwrite)
Write ==
    /\ constructed = "yes"
    /\ \E overwrite \in BOOLEAN :
          IF MustWrite(overwrite, ~IsNone(disk))
          THEN Wrote(str(Self), WriteName(overwrite))
          ELSE Install(Self, WriteName(overwrite), << >>) /\ disk' = disk
    /\ assigned' = None
    /\ UNCHANGED <<constructed, source, moves, reconfigured, isotach, storm_argument>>

\* a caller that constructs a track from a table, sets its window, numbers its
\* records, serializes it and writes it
NextSerialize ==
    \/ ConstructTable
    \/ SetStartDate
    \/ SetEndDate
    \/ GetRecordNumbers
    \/ Str
    \/ Write

SpecSerialize == Init /\ [][NextSerialize]_vars

(***************************************************************************)
(* Geometry: isotachs and wind_swath.  A geometry is the set of the pieces *)
(* it is the union of, the empty set the empty geometry; a piece is the    *)
(* sector of a quadrant or the convex hull of a geometry.  Radii are held  *)
(* in millionths of a nautical mile, lengths in millionths of a meter.     *)
(***************************************************************************)
\* meters in a nautical mile
MetersPerNauticalMile == 1852

\* the length of a meter, in millionths of a meter
OneMeter == 1000000

\* a fix of an isotach: its heading and the radii of its four quadrants
Ring(t, heading, speed, neq, nwq, swq, seq) ==
    [Row(t, "BEST", t, 0, 11) EXCEPT !.direction = heading]
        @@ [isotach |-> speed, radius_for_NEQ |-> neq, radius_for_NWQ |-> nwq,
            radius_for_SWQ |-> swq, radius_for_SEQ |-> seq]

\* the tables a caller passes for geometry: a track whose second 34-kt ring has no
\* radius and whose third has a quadrant of less than a meter; a track whose rings
\* have no radius; a track of one ring
RingFrames ==
    { << Ring(1, 0, 34, 1000000, 1000000, 1000000, 1000000),
         Ring(2, 0, 34, 0, 0, 0, 0),
         Ring(3, 90, 34, 600, 500, 0, 1000000),
         Ring(3, 90, 50, 0, 0, 600, 0) >>,
      << Ring(1, 0, 34, 0, 0, 0, 0), Ring(2, 90, 34, 0, 0, 0, 0) >>,
      << Ring(1, 90, 64, 600, 600, 600, 600) >> }

\* the quadrants in the order isotachs walks them
Quadrants == << "radius_for_NEQ", "radius_for_NWQ", "radius_for_SWQ", "radius_for_SEQ" >>

\* data[quadrants] *= 1852.0
ToMeters(data) ==
    [i \in 1 .. Len(data) |->
        [data[i] EXCEPT !.radius_for_NEQ = @ * MetersPerNauticalMile,
                        !.radius_for_NWQ = @ * MetersPerNauticalMile,
                        !.radius_for_SWQ = @ * MetersPerNauticalMile,
                        !.radius_for_SEQ = @ * MetersPerNauticalMile]]

\* Polygon(coords) of a quadrant: the sector about the fix from start_angle to
\* end_angle with the radius of the quadrant
Sector(row, start_angle, end_angle, radius) ==
    { [centre |-> << row.longitude, row.latitude >>, from |-> start_angle,
       to |-> end_angle, radius |-> radius] }

\* the test that skips a quadrant, mutated: no quadrant is skipped
SkippedNever(radius) == FALSE

\* row[quadrant] <= 1.0
Skipped(radius) == radius <= OneMeter

RECURSIVE QuadrantLoop(_, _, _, _, _)
\* the loop of isotachs over the quadrants of a row from the k-th on, arcs the list
\* so far: the angles are moved on before the test that skips a quadrant
QuadrantLoop(row, k, start_angle, end_angle, arcs) ==
    IF k > Len(Quadrants) THEN arcs
    ELSE QuadrantLoop(row, k + 1, start_angle + 90, end_angle + 90,
                      IF Skipped(row[Quadrants[k]]) THEN arcs
                      ELSE Append(arcs, Sector(row, start_angle, end_angle,
                                               row[Quadrants[k]])))

\* shapely.ops.unary_union of a list of geometries
unary_union(geometries) == UNION {geometries[i] : i \in 1 .. Len(geometries)}

\* rot_angle = 360 - row['direction']
RotAngle(row) == 360 - row.direction

\* the polygons of isotachs, one for each row of data
Polygons(data) ==
    [i \in 1 .. Len(data) |->
        unary_union(QuadrantLoop(data[i], 1, 0 + RotAngle(data[i]),
                                 90 + RotAngle(data[i]), << >>))]

\* frame[mask == wind_speed]: the rows of a frame at which the mask column holds
\* the wind speed
WithIsotach(rows, mask, wind_speed) ==
    Rows(SelectSeq([i \in 1 .. Len(rows) |-> [row |-> rows[i], key |-> mask[i].isotach]],
                   LAMBDA x : x.key = wind_speed))

\* isotachs with self.data read as rows, self.data read again into r for the mask
IsotachsMasked(rows, r, wind_speed) ==
    IF r.s.err # "none" THEN [s |-> r.s, val |-> << >>]
    ELSE IF Len(r.val) # Len(rows) THEN [s |-> Raise(r.s, "IndexingError"), val |-> << >>]
    ELSE [s |-> r.s, val |-> Polygons(ToMeters(WithIsotach(rows, r.val, wind_speed)))]

\* isotachs, self.data read into r
IsotachsOf(r, wind_speed) ==
    IF r.s.err # "none" THEN [s |-> r.s, val |-> << >>]
    ELSE IsotachsMasked(r.val, data_getter(r.s), wind_speed)

\* isotachs(wind_speed): the object afterwards and the list of polygons returned
isotachs(s, wind_speed) == IsotachsOf(data_getter(s), wind_speed)

\* geometry.convex_hull
convex_hull(geometry) == IF geometry = {} THEN {} ELSE { [hull |-> geometry] }

\* the list convex_hulls of wind_swath
ConvexHulls(rings) ==
    [index \in 1 .. Len(rings) - 1 |->
        convex_hull(unary_union(<< rings[index], rings[index + 1] >>))]

valid_isotach_values == {34, 50, 64}

\* the assertion of wind_swath, mutated: every isotach passes
ValidIsotachAny(speed) == TRUE

\* isotach in valid_isotach_values
ValidIsotach(speed) == speed \in valid_isotach_values

\* wind_swath after isotachs returned into r
SwathOf(r) ==
    IF r.s.err # "none" THEN [s |-> r.s, val |-> << >>]
    ELSE [s |-> r.s, val |-> unary_union(ConvexHulls(r.val))]

\* wind_swath(isotach): the object afterwards and the geometry returned
wind_swath(s, speed) ==
    IF ~ValidIsotach(speed) THEN [s |-> Raise(s, "AssertionError"), val |-> << >>]
    ELSE SwathOf(isotachs(s, speed))

\* the wind speeds a caller asks for
IsotachArguments == valid_isotach_values \cup {40}

\* VortexTrack(table, start_date, end_date)
ConstructRings ==
    /\ constructed = "no"
    /\ \E table \in RingFrames, start \in OptionalDates, end \in OptionalDates :
          Constructed(init([kind |-> "DataFrame", value |-> table], start, end,
                           "None", "None", "None", "None"))
    /\ source' = "DataFrame"
    /\ assigned' = None
    /\ UNCHANGED <<moves, reconfigured, disk, isotach, storm_argument>>

\* track.isotachs(wind_speed)
GetIsotachs ==
    /\ constructed = "yes"
    /\ \E wind_speed \in IsotachArguments :
          /\ Returned(isotachs(Self, wind_speed), "isotachs")
          /\ isotach' = Some(wind_speed)
    /\ assigned' = None
    /\ UNCHANGED <<constructed, source, moves, reconfigured, disk, storm_argument>>

\* track.wind_swath(isotach)
GetWindSwath ==
    /\ constructed = "yes"
    /\ \E speed \in IsotachArguments :
          /\ Returned(wind_swath(Self, speed), "wind_swath")
          /\ isotach' = Some(speed)
    /\ assigned' = None
    /\ UNCHANGED <<constructed, source, moves, reconfigured, disk, storm_argument>>

\* a caller that constructs a track from a table of isotach fixes, sets its window
\* and asks for its isotachs and wind swaths
NextGeometry ==
    \/ ConstructRings
    \/ SetStartDate
    \/ SetEndDate
    \/ GetIsotachs
    \/ GetWindSwath

SpecGeometry == Init /\ [][NextGeometry]_vars

(***************************************************************************)
(* Construction from a string.                                             *)
(***************************************************************************)
\* the strings a caller passes as storm, with the id of a storm the provider does
\* not know
IdentityStrings == StormStrings \cup {"AL992017"}

\* VortexTrack(string, start_date, end_date, file_deck, mode, record_type)
ConstructString ==
    /\ constructed = "no"
    /\ \E string \in IdentityStrings, start \in OptionalDates, end \in OptionalDates,
          deck \in FileDeckArguments, m \in ModeArguments, rt \in RecordTypeArguments :
            /\ Constructed(init([kind |-> "str", value |-> string], start, end, deck, m,
                                rt, "None"))
            /\ source' = SourceOf([kind |-> "str", value |-> string])
            /\ storm_argument' = Some(string)
    /\ assigned' = None
    /\ UNCHANGED <<moves, reconfigured, disk, isotach>>

\* a caller that constructs a track from a string, sets its window and reads it
NextIdentity ==
    \/ ConstructString
    \/ SetStartDate
    \/ SetEndDate
    \/ GetData
    \/ GetDataframe

SpecIdentity == Init /\ [][NextIdentity]_vars

(***************************************************************************)
(* Accesses to the remote source.                                          *)
(***************************************************************************)
\* the variables after remote_atcf left s: the stream is what it returns
RemoteAtcfRead(s) == Install(s, "remote_atcf", IF s.err = "none" THEN s.remote_atcf ELSE << >>)

\* track.remote_atcf
GetRemoteAtcf ==
    /\ constructed = "yes"
    /\ RemoteAtcfRead(remote_atcf_getter(Self))
    /\ assigned' = None
    /\ UNCHANGED <<constructed, source, moves, reconfigured, disk, isotach, storm_argument>>

\* a caller that constructs a track from a string, changes its configuration and
\* accesses its remote source and its table
NextFetch ==
    \/ ConstructString
    \/ SetFileDeck
    \/ SetMode
    \/ SetStormId
    \/ GetRemoteAtcf
    \/ GetDataframe

SpecFetch == Init /\ [][NextFetch]_vars

(***************************************************************************)
(* Properties of the track, one per claim of the specification.            *)
(***************************************************************************)
\* the timestamps a table holds
Timestamps(rows) == {rows[i].datetime : i \in 1 .. Len(rows)}

MinTimestamp(rows) == CHOOSE t \in Timestamps(rows) : \A u \in Timestamps(rows) : t <= u
MaxTimestamp(rows) == CHOOSE t \in Timestamps(rows) : \A u \in Timestamps(rows) : u <= t

\* whether a date is outside [min(timestamp), max(timestamp)] of a table
OutsideTable(rows, date) == date < MinTimestamp(rows) \/ date > MaxTimestamp(rows)

\* snap(e): the smallest timestamp of the table that is >= e, when there is one
SnapExists(rows, e) == \E t \in Timestamps(rows) : t >= e
Snap(rows, e) ==
    CHOOSE t \in Timestamps(rows) : t >= e /\ \A u \in Timestamps(rows) : u >= e => t <= u

\* the rows of a table with s <= timestamp <= snap(e), in the table's order
WindowRows(rows, s, e) ==
    SelectSeq(rows, LAMBDA r : s <= r.datetime /\ r.datetime <= Snap(rows, e))

\* the last operation was an assignment of a date (not of None) to the window
DateAssigned == op \in {"start_date", "end_date"} /\ ~IsNone(assigned)

\* C1: a read of data that gets a table returns exactly the rows of the table held
\* whose timestamp t has start_date <= t <= snap(end_date), snap(e) the smallest
\* timestamp of the table that is >= e; the read fails only when the table cannot be
\* retrieved or when no timestamp of the table is >= end_date.
C1_DataReturnsTheWindow ==
    (constructed = "yes" /\ op = "data") =>
        \/ /\ raised = "none"
           /\ SnapExists(Value(dataframe), Value(end_date))
           /\ returned = WindowRows(Value(dataframe), Value(start_date), Value(end_date))
        \/ /\ raised = "TypeError"
           /\ ~SnapExists(Value(dataframe), Value(end_date))
        \/ raised = "RetrievalError"

\* C1 witness: a read of data returned a window whose end_date is no timestamp of the
\* table, with two rows at the timestamp the end snapped to.
C1_Witness ==
    /\ constructed = "yes" /\ op = "data" /\ raised = "none"
    /\ Value(end_date) \notin Timestamps(Value(dataframe))
    /\ Cardinality({i \in 1 .. Len(returned) :
                       returned[i].datetime = Snap(Value(dataframe), Value(end_date))}) >= 2

\* the storm identity a read sees: the one set, else the one of the table's last fix
IdentityRead == storm_id_getter(Self).storm_id

\* the track holds no non-empty table, or its tuple (storm identity, file deck, mode,
\* filename) differs from the one recorded at the last fetch
StaleTable ==
    \/ IsNone(dataframe)
    \/ dataframe = Some(<< >>)
    \/ previous_configuration.storm_id # IdentityRead
    \/ previous_configuration.file_deck # file_deck
    \/ previous_configuration.mode # mode
    \/ previous_configuration.filename # filename

\* C2: an assignment to the window or a read of the table calls the provider or the
\* decoder only if the track holds no non-empty table or its tuple (storm identity,
\* file deck, mode, filename) differs from the one recorded at the last fetch;
\* otherwise it fetches nothing and the table held stays the same.
C2_FetchOnlyOnNewConfiguration ==
    [][(constructed = "yes" /\ op' \in {"start_date", "end_date", "data", "dataframe"}) =>
          /\ (downloads' + decodes' > 0) => StaleTable
          /\ ~StaleTable => (dataframe' = dataframe /\ downloads' = 0 /\ decodes' = 0)
          /\ (~StaleTable /\ op' = "dataframe") => (raised' = "none" /\ returned' = Value(dataframe))
      ]_vars

\* C2 witness: a date was assigned to the window of a track whose configuration had
\* been written before, and the assignment fetched nothing.
C2_Witness ==
    /\ constructed = "yes" /\ DateAssigned /\ raised = "none" /\ reconfigured
    /\ downloads = 0 /\ decodes = 0

\* C3: a track constructed from a byte stream or an existing path never asks the
\* provider to download, as long as the caller assigns no identity, file deck, mode
\* or filename.
C3_StreamTrackNeverDownloads ==
    (constructed = "yes" /\ source \in {"BytesIO", "path"} /\ ~reconfigured) => downloads = 0

\* C4: after a successful assignment of a date to start_date, on a track whose
\* configuration the caller never wrote, end_date > start_date.
C4_EndAfterStart ==
    (constructed = "yes" /\ ~reconfigured /\ op = "start_date" /\ ~IsNone(assigned)
        /\ raised = "none")
    => Value(end_date) > Value(start_date)

\* C5: start_date and end_date lie within [min(timestamp), max(timestamp)] of the
\* table held, on a track constructed from an identity or from a caller's table.
C5_WindowWithinTableBounds ==
    (constructed = "yes" /\ source \in {"identity", "DataFrame"}) =>
        /\ ~OutsideTable(Value(dataframe), Value(start_date))
        /\ ~OutsideTable(Value(dataframe), Value(end_date))

\* C6: an assignment to end_date of a date earlier than or equal to start_date fails,
\* with a ValueError whenever the table could be read, and leaves end_date, start_date
\* and the rows a read of data returns as they were.
C6_EndNotAfterStartIsRefused ==
    [][(constructed = "yes" /\ op' = "end_date" /\ ~IsNone(assigned')
            /\ Value(assigned') <= Value(start_date)) =>
          /\ raised' \in {"ValueError", "RetrievalError"}
          /\ raised' = "RetrievalError" => dataframe_getter(Self).err = "RetrievalError"
          /\ end_date' = end_date
          /\ start_date' = start_date
          /\ data_getter(Self').val = data_getter(Self).val
          /\ data_getter(Self').s.err = data_getter(Self).s.err
      ]_vars

\* C6 witness: a date within the table's bounds and not after start_date was assigned
\* to end_date, and the assignment raised a ValueError.
C6_Witness ==
    /\ constructed = "yes" /\ op = "end_date" /\ ~IsNone(assigned)
    /\ Value(assigned) <= Value(start_date)
    /\ ~OutsideTable(Value(dataframe), Value(assigned))
    /\ raised = "ValueError" /\ ~reconfigured

\* C7: an assignment to start_date or end_date of a date earlier than the minimum or
\* later than the maximum timestamp of the table fails at the assignment, with a
\* ValueError whenever the table could be read, and leaves the window as it was.
C7_OutOfBoundsIsRefusedAtAssignment ==
    [][(constructed = "yes" /\ op' \in {"start_date", "end_date"} /\ ~IsNone(assigned')
            /\ OutsideTable(Value(dataframe'), Value(assigned'))) =>
          /\ raised' \in {"ValueError", "RetrievalError"}
          /\ raised' = "RetrievalError" => dataframe_getter(Self).err = "RetrievalError"
          /\ start_date' = start_date
          /\ end_date' = end_date
      ]_vars

\* C7 witness: a date later than every timestamp of the table was assigned to
\* start_date, and the assignment raised a ValueError.
C7_Witness ==
    /\ constructed = "yes" /\ op = "start_date" /\ ~IsNone(assigned)
    /\ Value(assigned) > MaxTimestamp(Value(dataframe))
    /\ raised = "ValueError" /\ ~reconfigured

\* C8: with record_type HWRF set, on a track constructed from an identity, a read of
\* data returns only rows whose record_type is HWRF.
C8_DataReturnsOnlyTheRecordType ==
    (constructed = "yes" /\ source = "identity" /\ op = "data" /\ raised = "none"
        /\ record_type = "HWRF")
    => \A i \in 1 .. Len(returned) : returned[i].record_type = "HWRF"

\* C9: a record_type that is set belongs to the allowed set of the current file deck.
C9_RecordTypeAllowedByFileDeck ==
    (constructed = "yes" /\ record_type # "None") =>
        \/ file_deck = "a" /\ record_type \in {"OFCL", "OFCP", "HWRF", "HMON", "CARQ"}
        \/ file_deck = "b" /\ record_type = "BEST"

\* C10: after a fix was moved and the table read again with the velocity engine run,
\* every row of the table held carries the speed and direction the engine computed
\* for its record_type and timestamp.
C10_TableCarriesComputedVelocity ==
    (constructed = "yes" /\ moves > 0 /\ op = "dataframe" /\ raised = "none"
        /\ engine_runs > 0)
    => \A k \in 1 .. Len(record_data) : \A i \in 1 .. Len(record_data[k]) :
          LET row == Value(dataframe)[ClusterPositions(Value(dataframe),
                                                       record_data[k][1].record_type)[i]]
          IN  /\ row.speed = record_data[k][i].speed
              /\ row.direction = record_data[k][i].direction

\* the last operation was a read of the table that returned
ReadReturned == op \in {"dataframe", "data"} /\ raised = "none"

\* the speed and direction columns of a table
VelocityColumns(rows) == [i \in 1 .. Len(rows) |-> << rows[i].speed, rows[i].direction >>]

\* C11: when a read of the table follows a read with no longitude or latitude changed
\* in between, the second read does not run the velocity engine, and no row's speed or
\* direction differs after it, in the table held and in the frames the engine wrote.
C11_SecondReadRunsNoEngine ==
    [][(constructed = "yes" /\ ReadReturned /\ ReadReturned'
            /\ hash_pandas_object(Value(dataframe')) = hash_pandas_object(Value(dataframe))) =>
          /\ engine_runs' = 0
          /\ VelocityColumns(Value(dataframe')) = VelocityColumns(Value(dataframe))
          /\ record_data' = record_data
      ]_vars

\* C11 witness: after a fix was moved, a read returned without running the engine
\* (the read before it ran it).
C11_Witness ==
    /\ constructed = "yes" /\ moves > 0 /\ op = "dataframe" /\ raised = "none"
    /\ engine_runs = 0
    /\ location_hash = Some(hash_pandas_object(Value(dataframe)))

\* C12: in every frame the velocity engine wrote, the speed of the rows at the first
\* distinct timestamp is a defined number.
C12_LeadingSpeedIsDefined ==
    constructed = "yes" =>
        \A k \in 1 .. Len(record_data) :
            /\ record_data[k][1].speed # NaN
            /\ record_data[k][1].speed # Infinity

\* the rows the window of the track selects from the table held
View == WindowRows(Value(dataframe), Value(start_date), Value(end_date))

\* the number of distinct timestamps of a table that are not after t
Rank(rows, t) == Cardinality({u \in Timestamps(rows) : u <= t})

\* C13: record_numbers gives every row of the filtered view the 1-based rank of its
\* timestamp among the distinct timestamps of the view: rows of one timestamp share a
\* number, and the k-th smallest timestamp gets number k, whatever the row order.
C13_NumbersFollowTimestamps ==
    (constructed = "yes" /\ op = "record_numbers" /\ raised = "none") =>
        /\ Len(returned) = Len(View)
        /\ \A i \in 1 .. Len(returned) : returned[i] = Rank(View, View[i].datetime)

\* the effective background pressure of row i of a view: its own, or the one of the
\* row before it when its own is unset
EffectiveBackground(view, i) ==
    IF view[i].background_pressure # Unset THEN view[i].background_pressure
    ELSE IF i > 1 THEN view[i - 1].background_pressure
    ELSE Unset

\* the background pressure a line is to hold, from the central pressure c and the
\* effective background pressure b, both in tenths of a millibar
ExpectedBackground(c, b) ==
    IF c # NaN /\ b <= c /\ c < StandardPressure * 10 THEN StandardPressure
    ELSE IF c # NaN /\ b <= c THEN Round0(c + 10) \div 10
    ELSE Round0(b) \div 10

\* C14: every serialized row whose effective background pressure b is set holds, for
\* its central pressure c: 1013 if c is defined, b <= c and c < 1013; c + 1 if c is
\* defined, b <= c and c >= 1013; else b rounded to an integer.
C14_BackgroundPressureRule ==
    (constructed = "yes" /\ op = "str" /\ raised = "none") =>
        \A i \in 1 .. Len(returned) :
            EffectiveBackground(View, i) # Unset =>
                returned[i].background_pressure =
                    ExpectedBackground(View[i].central_pressure, EffectiveBackground(View, i))

\* C15: every serialized line holds the latitude and the longitude as the absolute
\* value in whole tenths of a degree with the letter of the hemisphere: N or E for a
\* value that is not negative, S or W for a negative one.
C15_CoordinatesInTenthsWithHemisphere ==
    (constructed = "yes" /\ op = "str" /\ raised = "none") =>
        \A i \in 1 .. Len(returned) :
            /\ returned[i].latitude =
                  Coordinate(Abs(View[i].latitude * 10), 1,
                             IF View[i].latitude >= 0 THEN "N" ELSE "S")
            /\ returned[i].longitude =
                  Coordinate(Abs(View[i].longitude * 10), 1,
                             IF View[i].longitude >= 0 THEN "E" ELSE "W")

\* C16: a write without overwrite leaves a destination that exists as it is; a write
\* that returns, to a destination that does not exist or with overwrite, leaves in it
\* the serialized track.
C16_WriteKeepsExistingFile ==
    [][/\ (op' = "write" /\ ~IsNone(disk)) => disk' = disk
       /\ (op' \in {"write", "write_overwrite"} /\ raised' = "none"
               /\ (IsNone(disk) \/ op' = "write_overwrite")) =>
             disk' = Some(str(Self).val)
      ]_vars

\* C16 witness: a write without overwrite has returned and the destination holds
\* lines that are not the serialization of the track as it is now: the window was
\* changed after the file was written, and the write skipped it.
C16_Witness ==
    /\ constructed = "yes" /\ op = "write" /\ raised = "none"
    /\ ~IsNone(disk)
    /\ Value(disk) # << >>
    /\ str(Self).s.err = "none"
    /\ disk # Some(str(Self).val)

\* the rows of the view that hold the isotach last asked for
Selected == SelectSeq(View, LAMBDA r : r.isotach = Value(isotach))

\* C17: wind_swath with an isotach outside {34, 50, 64} fails with the error of the
\* isotach check and returns no geometry.
C17_InvalidIsotachIsRefused ==
    (constructed = "yes" /\ op = "wind_swath" /\ Value(isotach) \notin {34, 50, 64}) =>
        /\ raised = "AssertionError"
        /\ returned = << >>

\* C17 witness: wind_swath(40) was refused on a track that holds rings.
C17_Witness ==
    /\ constructed = "yes" /\ op = "wind_swath" /\ isotach = Some(40)
    /\ raised = "AssertionError"
    /\ \E i \in 1 .. Len(View) : View[i].radius_for_NEQ > 0

\* the sectors the quadrants of a row are to give: the k-th quadrant in the order NE,
\* NW, SW, SE, counted from zero, spans rot + 90k to rot + 90(k + 1), rot = 360 -
\* direction, and a quadrant of at most a meter gives none
ExpectedSectors(row) ==
    { [centre |-> << row.longitude, row.latitude >>,
       from |-> 360 - row.direction + 90 * k,
       to |-> 360 - row.direction + 90 * (k + 1),
       radius |-> row[Quadrants[k + 1]] * MetersPerNauticalMile] :
        k \in {q \in 0 .. 3 : row[Quadrants[q + 1]] * MetersPerNauticalMile > OneMeter} }

\* a ring is nonempty when one of its quadrants is of more than a meter
NonemptyRings == {i \in 1 .. Len(Selected) : ExpectedSectors(Selected[i]) # {}}

\* C18: wind_swath returns the empty geometry whenever fewer than two of the rings of
\* the view for the isotach are nonempty, however many rings there are.
C18_SwathEmptyBelowTwoRings ==
    (constructed = "yes" /\ op = "wind_swath" /\ raised = "none"
        /\ Cardinality(NonemptyRings) < 2) => returned = {}

\* C19: isotachs returns one polygon for each row of the view with the wind speed: the
\* union of the sectors of its quadrants of more than a meter, each over its own
\* 90-degree range whichever quadrants were skipped; a row whose radii are all zero
\* gives the empty polygon.
C19_QuadrantsKeepTheirRange ==
    (constructed = "yes" /\ op = "isotachs" /\ raised = "none") =>
        /\ Len(returned) = Len(Selected)
        /\ \A i \in 1 .. Len(returned) : returned[i] = ExpectedSectors(Selected[i])

\* C19 witness: isotachs returned an empty polygon for a row without radii and, for a
\* row whose second quadrant is of less than a meter but not zero, a polygon of the
\* sectors of its first and fourth quadrant.
C19_Witness ==
    /\ constructed = "yes" /\ op = "isotachs" /\ raised = "none"
    /\ \E i \in 1 .. Len(returned) : returned[i] = {}
    /\ \E i \in 1 .. Len(returned) :
          /\ Selected[i].radius_for_NWQ > 0
          /\ Cardinality(returned[i]) = 2
          /\ \E a \in returned[i] :
                a.from = 360 - Selected[i].direction + 270 /\ a.to = a.from + 90

\* a string that is no path of a file and no identity of a storm: a name and year
\* that the resolver does not know, or an id that the provider does not know
Unresolvable(string) ==
    /\ ~PathExists(string)
    /\ IF Digits(string) = 4 THEN atcf_id_from_storm_name(string) = "None"
       ELSE string \notin KnownStorms

\* C20: the construction of a track from a string that is neither the path of a file
\* nor a resolvable identity, written as name and year or as basin, number and year,
\* fails with the error of the identity check, and the provider is never asked for
\* that identity.
C20_UnresolvableStringIsRefused ==
    (constructed # "no" /\ ~IsNone(storm_argument) /\ Unresolvable(Value(storm_argument))) =>
        /\ constructed = "failed"
        /\ raised = "ValueError"
        /\ downloads = 0

\* the distinct timestamps of a cluster, in the order of their first rows
DistinctTimes(cluster) == Unique(Column(cluster, "datetime"))

\* the first row of a cluster with the timestamp t
Representative(cluster, t) ==
    cluster[CHOOSE i \in 1 .. Len(cluster) :
                /\ cluster[i].datetime = t
                /\ \A j \in 1 .. i - 1 : cluster[j].datetime # t]

\* the representative that the one of the u-th distinct timestamp is paired with: the
\* one of the distinct timestamp before it, itself for the first
Partner(cluster, u) ==
    Representative(cluster, DistinctTimes(cluster)[IF u = 1 THEN 1 ELSE u - 1])

\* the place of a timestamp among the distinct timestamps of a cluster
PlaceOf(cluster, t) ==
    CHOOSE u \in 1 .. Len(DistinctTimes(cluster)) : DistinctTimes(cluster)[u] = t

\* the bearing from the partner to the representative of the timestamp t
PairedDirection(cluster, t) ==
    GeodBackAzimuth(Representative(cluster, t).longitude,
                    Representative(cluster, t).latitude,
                    Partner(cluster, PlaceOf(cluster, t)).longitude,
                    Partner(cluster, PlaceOf(cluster, t)).latitude) % 360

\* C21: for every record_type cluster of the table, wherever its rows lie in the
\* table, the velocity engine finds the representatives among the rows of the cluster
\* (it never fails looking for a row that is not of the cluster), and the direction it
\* gives the rows of a timestamp is the bearing between the first row of the cluster
\* with that timestamp and the first row with the distinct timestamp before it, the
\* first representative paired with itself.
C21_RepresentativesOfEachCluster ==
    /\ raised # "KeyError"
    /\ constructed = "yes" =>
          \A k \in 1 .. Len(record_data) : \A i \in 1 .. Len(record_data[k]) :
              /\ record_data[k][i].record_type = record_data[k][1].record_type
              /\ record_data[k][i].direction =
                    PairedDirection(record_data[k], record_data[k][i].datetime)

\* the background pressure a forward pass carries to row i of a view: the one of the
\* last row up to i that has one, Unset if there is none
Carried(view, i) ==
    IF \A j \in 1 .. i : view[j].background_pressure = Unset THEN Unset
    ELSE view[CHOOSE j \in 1 .. i :
                 /\ view[j].background_pressure # Unset
                 /\ \A k \in j + 1 .. i : view[k].background_pressure = Unset
             ].background_pressure

\* the background pressure a line is to hold for the carried value b: none when
\* nothing was carried
ExpectedCarried(c, b) == IF b = Unset THEN EmptyField ELSE ExpectedBackground(c, b)

\* C22: serialization fills an unset background pressure in one forward pass: a row
\* without one gets the value in effect for the row before it in the view, so every
\* row of a run of unset rows gets the last value set and the serialization returns
\* whenever a value was set before; the first row of the view takes nothing from the
\* last row; and the background_pressure column of the table is as it was.
C22_UnsetBackgroundIsCarriedForward ==
    [][op' = "str" =>
          /\ (\A i \in 1 .. Len(View') : Carried(View', i) # Unset) => raised' = "none"
          /\ raised' = "none" =>
                \A i \in 1 .. Len(returned') :
                    View'[i].background_pressure = Unset =>
                        returned'[i].background_pressure =
                            ExpectedCarried(View'[i].central_pressure, Carried(View', i))
          /\ Column(Value(dataframe'), "background_pressure")
                = Column(Value(dataframe), "background_pressure")
      ]_vars

\* the last operation was an access to the remote source or to the table
Accessed == op \in {"remote_atcf", "dataframe"}

\* the configuration recorded is the one the track has
Recorded == previous_configuration = Configuration(IdentityRead, file_deck, mode, filename)

\* C23: an access that fetched from the provider has recorded the configuration it
\* fetched for, and an access that follows an access that returned, with no change of
\* the configuration between them, fetches nothing from the provider.
C23_OneFetchForAConfiguration ==
    [][constructed = "yes" =>
          /\ (Accessed' /\ raised' = "none" /\ downloads' > 0) => Recorded'
          /\ (Accessed /\ raised = "none" /\ Accessed') => downloads' = 0
      ]_vars

====
